---- MODULE Spec2Model ----
(***************************************************************************)
(* A model of the RSpec runner tool of mcp-rspec (src/src/rspec_runner.rs): *)
(* ParsedFilePath::from_args and validate_file_path, and the tool handler   *)
(* RspecRunner::run_rspec with the child process it spawns and awaits.      *)
(*                                                                         *)
(* Text is a sequence of characters, each character a one-character string: *)
(* "spec" is <<"s", "p", "e", "c">>.  The NUL character U+0000, the byte    *)
(* 0xFF (not valid UTF-8) and the replacement character U+FFFD cannot be    *)
(* written in a TLA+ string and are the tokens NUL, INVALID_BYTE and        *)
(* REPLACEMENT_CHARACTER; a character beyond ASCII, or a control character *)
(* without a TLA+ escape, is the token "\\uXXXX" of its code point.         *)
(* Option<T> is a sequence of at most one element:  *)
(* None is <<>> and Some(x) is <<x>>.  Result<T, E> is a record with the    *)
(* field ok and then val or err.                                            *)
(***************************************************************************)
EXTENDS Integers, Sequences, FiniteSets

(* rspec_command  RspecRunner.rspec_command, the configured base command    *)
(* args           per invocation, the RspecRunnerArgs of the call           *)
(* pc             per invocation, where run_rspec is: "idle" (no call),     *)
(*                "called", "awaiting" (in cmd.output().await), "returned"  *)
(* parsed_file    per invocation, the local parsed_file once there is one   *)
(* rspec_arg      per invocation, the local rspec_arg                       *)
(* child          per invocation, the process of its Command: "none",       *)
(*                "not_spawned" (it could not be started), "running",       *)
(*                "terminated" (ended, status and output collected),        *)
(*                "wait_failed" (started and ended, but the wait for it     *)
(*                failed and its status is lost); its program and           *)
(*                arguments; whether it will never end (hangs); its exit    *)
(*                status and output once ended, or the error of the wait    *)
(* result         per invocation, what run_rspec returned                   *)
VARIABLES rspec_command, args, pc, parsed_file, rspec_arg, child, result

vars == <<rspec_command, args, pc, parsed_file, rspec_arg, child, result>>

----------------------------------------------------------------------------
(* Rust's Option and Result *)

None == <<>>

Some(x) == <<x>>

unwrap_or(opt, default) == IF opt = None THEN default ELSE opt[1]

unwrap_or_default(opt) == unwrap_or(opt, <<>>)

Ok(v) == [ok |-> TRUE, val |-> v]

Err(e) == [ok |-> FALSE, err |-> e]

----------------------------------------------------------------------------
(* Characters and the str methods the code calls *)

NUL == "\\0"

LF == "\n"

INVALID_BYTE == "\\xFF"

REPLACEMENT_CHARACTER == "\\uFFFD"

contains_char(s, c) == \E i \in 1..Len(s) : s[i] = c

contains(s, pat) ==
    \E i \in 0..(Len(s) - Len(pat)) : SubSeq(s, i + 1, i + Len(pat)) = pat

starts_with(s, pat) ==
    Len(pat) <= Len(s) /\ SubSeq(s, 1, Len(pat)) = pat

ends_with(s, pat) ==
    Len(pat) <= Len(s) /\ SubSeq(s, Len(s) - Len(pat) + 1, Len(s)) = pat

strip_prefix(s, pat) ==
    IF starts_with(s, pat) THEN Some(SubSeq(s, Len(pat) + 1, Len(s))) ELSE None

(* char::is_whitespace: the characters with the Unicode property          *)
(* White_Space, U+0009..U+000D, U+0020, U+0085, U+00A0, U+1680,            *)
(* U+2000..U+200A, U+2028, U+2029, U+202F, U+205F and U+3000               *)
WHITE_SPACE ==
    {"\t", "\n", "\\u000B", "\f", "\r", " ", "\\u0085", "\\u00A0", "\\u1680",
     "\\u2000", "\\u2001", "\\u2002", "\\u2003", "\\u2004", "\\u2005", "\\u2006",
     "\\u2007", "\\u2008", "\\u2009", "\\u200A", "\\u2028", "\\u2029", "\\u202F",
     "\\u205F", "\\u3000"}

is_whitespace(c) == c \in WHITE_SPACE

RECURSIVE split_words(_, _)
split_words(s, word) ==
    IF s = <<>> THEN (IF word = <<>> THEN <<>> ELSE <<word>>)
    ELSE IF is_whitespace(Head(s))
         THEN (IF word = <<>> THEN <<>> ELSE <<word>>) \o split_words(Tail(s), <<>>)
         ELSE split_words(Tail(s), Append(word, Head(s)))

split_whitespace(s) == split_words(s, <<>>)

RECURSIVE join(_, _)
join(parts, sep) ==
    IF parts = <<>> THEN <<>>
    ELSE IF Len(parts) = 1 THEN parts[1]
    ELSE parts[1] \o sep \o join(Tail(parts), sep)

digit_char(d) == <<"0", "1", "2", "3", "4", "5", "6", "7", "8", "9">>[d + 1]

RECURSIVE digits(_)
digits(n) ==
    IF n < 10 THEN <<digit_char(n)>>
    ELSE Append(digits(n \div 10), digit_char(n % 10))

to_string(n) == IF n < 0 THEN <<"-">> \o digits(-n) ELSE digits(n)

from_utf8_lossy(bytes) ==
    [i \in 1..Len(bytes) |->
        IF bytes[i] = INVALID_BYTE THEN REPLACEMENT_CHARACTER ELSE bytes[i]]

----------------------------------------------------------------------------
(* ParsedFilePath *)

(* mutant: the traversal check comes before the character check *)
validate_file_path_traversal_first(path) ==
    IF contains(path, <<".", ".", "/">>)
    THEN Err(<<"P", "a", "t", "h", " ", "t", "r", "a", "v", "e", "r", "s", "a", "l", " ",
               "n", "o", "t", " ", "a", "l", "l", "o", "w", "e", "d">>)
    ELSE IF contains_char(path, NUL) \/ contains_char(path, LF)
    THEN Err(<<"I", "n", "v", "a", "l", "i", "d", " ", "c", "h", "a", "r", "a", "c", "t",
               "e", "r", "s", " ", "i", "n", " ", "f", "i", "l", "e", " ", "p", "a", "t", "h">>)
    ELSE LET clean_path == unwrap_or(strip_prefix(path, <<".", "/">>), path)
         IN  IF ~ends_with(clean_path, <<"_", "s", "p", "e", "c", ".", "r", "b">>)
             THEN Err(<<"F", "i", "l", "e", " ", "m", "u", "s", "t", " ", "b", "e", " ", "a",
                        "n", " ", "R", "S", "p", "e", "c", " ", "t", "e", "s", "t", " ", "f",
                        "i", "l", "e", " ", "(", "*", "_", "s", "p", "e", "c", ".", "r", "b",
                        ")">>)
             ELSE IF clean_path = <<"_", "s", "p", "e", "c", ".", "r", "b">>
             THEN Err(<<"I", "n", "v", "a", "l", "i", "d", " ", "f", "i", "l", "e", " ", "p",
                        "a", "t", "h", " ", "f", "o", "r", "m", "a", "t">>)
             ELSE Ok(<<>>)

(* mutant: the suffix check comes before the traversal check *)
validate_file_path_suffix_first(path) ==
    IF contains_char(path, NUL) \/ contains_char(path, LF)
    THEN Err(<<"I", "n", "v", "a", "l", "i", "d", " ", "c", "h", "a", "r", "a", "c", "t",
               "e", "r", "s", " ", "i", "n", " ", "f", "i", "l", "e", " ", "p", "a", "t", "h">>)
    ELSE LET clean_path == unwrap_or(strip_prefix(path, <<".", "/">>), path)
         IN  IF ~ends_with(clean_path, <<"_", "s", "p", "e", "c", ".", "r", "b">>)
             THEN Err(<<"F", "i", "l", "e", " ", "m", "u", "s", "t", " ", "b", "e", " ", "a",
                        "n", " ", "R", "S", "p", "e", "c", " ", "t", "e", "s", "t", " ", "f",
                        "i", "l", "e", " ", "(", "*", "_", "s", "p", "e", "c", ".", "r", "b",
                        ")">>)
             ELSE IF clean_path = <<"_", "s", "p", "e", "c", ".", "r", "b">>
             THEN Err(<<"I", "n", "v", "a", "l", "i", "d", " ", "f", "i", "l", "e", " ", "p",
                        "a", "t", "h", " ", "f", "o", "r", "m", "a", "t">>)
             ELSE IF contains(path, <<".", ".", "/">>)
             THEN Err(<<"P", "a", "t", "h", " ", "t", "r", "a", "v", "e", "r", "s", "a", "l",
                        " ", "n", "o", "t", " ", "a", "l", "l", "o", "w", "e", "d">>)
             ELSE Ok(<<>>)

validate_file_path(path) ==
    IF contains_char(path, NUL) \/ contains_char(path, LF)
    THEN Err(<<"I", "n", "v", "a", "l", "i", "d", " ", "c", "h", "a", "r", "a", "c", "t",
               "e", "r", "s", " ", "i", "n", " ", "f", "i", "l", "e", " ", "p", "a", "t", "h">>)
    ELSE IF contains(path, <<".", ".", "/">>)
    THEN Err(<<"P", "a", "t", "h", " ", "t", "r", "a", "v", "e", "r", "s", "a", "l", " ",
               "n", "o", "t", " ", "a", "l", "l", "o", "w", "e", "d">>)
    ELSE LET clean_path == unwrap_or(strip_prefix(path, <<".", "/">>), path)
         IN  IF ~ends_with(clean_path, <<"_", "s", "p", "e", "c", ".", "r", "b">>)
             THEN Err(<<"F", "i", "l", "e", " ", "m", "u", "s", "t", " ", "b", "e", " ", "a",
                        "n", " ", "R", "S", "p", "e", "c", " ", "t", "e", "s", "t", " ", "f",
                        "i", "l", "e", " ", "(", "*", "_", "s", "p", "e", "c", ".", "r", "b",
                        ")">>)
             ELSE IF clean_path = <<"_", "s", "p", "e", "c", ".", "r", "b">>
             THEN Err(<<"I", "n", "v", "a", "l", "i", "d", " ", "f", "i", "l", "e", " ", "p",
                        "a", "t", "h", " ", "f", "o", "r", "m", "a", "t">>)
             ELSE Ok(<<>>)

(* mutant: the loop keeps the last offending line number, not the first *)
RECURSIVE last_non_positive(_)
last_non_positive(line_numbers) ==
    IF line_numbers = <<>> THEN None
    ELSE IF last_non_positive(Tail(line_numbers)) # None
    THEN last_non_positive(Tail(line_numbers))
    ELSE IF Head(line_numbers) <= 0 THEN Some(Head(line_numbers))
    ELSE None

RECURSIVE first_non_positive(_)
first_non_positive(line_numbers) ==
    IF line_numbers = <<>> THEN None
    ELSE IF Head(line_numbers) <= 0 THEN Some(Head(line_numbers))
    ELSE first_non_positive(Tail(line_numbers))

(* mutant: the path is kept as it was checked, without its `./` prefix *)
from_args_clean_path(file_path, line_numbers) ==
    IF file_path = <<>>
    THEN Err(<<"E", "m", "p", "t", "y", " ", "f", "i", "l", "e", " ", "p", "a", "t", "h">>)
    ELSE LET checked == validate_file_path(file_path)
             line_num == first_non_positive(line_numbers)
         IN  IF ~checked.ok
             THEN checked
             ELSE IF line_num # None
             THEN Err(<<"L", "i", "n", "e", " ", "n", "u", "m", "b", "e", "r", "s", " ", "m",
                        "u", "s", "t", " ", "b", "e", " ", "p", "o", "s", "i", "t", "i", "v",
                        "e", " ", "i", "n", "t", "e", "g", "e", "r", "s", ",", " ", "g", "o",
                        "t", ":", " ">>
                      \o to_string(line_num[1]))
             ELSE Ok([file_path |-> unwrap_or(strip_prefix(file_path, <<".", "/">>), file_path),
                      line_numbers |-> line_numbers])

from_args(file_path, line_numbers) ==
    IF file_path = <<>>
    THEN Err(<<"E", "m", "p", "t", "y", " ", "f", "i", "l", "e", " ", "p", "a", "t", "h">>)
    ELSE LET checked == validate_file_path(file_path)
             line_num == first_non_positive(line_numbers)
         IN  IF ~checked.ok
             THEN checked
             ELSE IF line_num # None
             THEN Err(<<"L", "i", "n", "e", " ", "n", "u", "m", "b", "e", "r", "s", " ", "m",
                        "u", "s", "t", " ", "b", "e", " ", "p", "o", "s", "i", "t", "i", "v",
                        "e", " ", "i", "n", "t", "e", "g", "e", "r", "s", ",", " ", "g", "o",
                        "t", ":", " ">>
                      \o to_string(line_num[1]))
             ELSE Ok([file_path |-> file_path, line_numbers |-> line_numbers])

----------------------------------------------------------------------------
(* RspecRunner::run_rspec *)

McpError(code, message) == [kind |-> code, text |-> message]

CallToolResult_success(text) == [kind |-> "success", text |-> text]

NoResult == [kind |-> "none", text |-> <<>>]

NoChild == [state |-> "none", program |-> <<>>, arguments |-> <<>>,
            hangs |-> FALSE, status |-> None, stdout |-> <<>>, stderr |-> <<>>,
            error |-> <<>>]

Exited(code) == [code |-> Some(code), signal |-> None]

Signaled(signal) == [code |-> None, signal |-> Some(signal)]

SIGNAL_SENTINEL == -1

command_parts(command) == split_whitespace(command)

(* mutant: repeated selectors are dropped from the positional argument *)
build_rspec_arg_unique(parsed) ==
    LET l == parsed.line_numbers
        kept == SelectSeq([k \in 1..Len(l) |-> <<k, l[k]>>],
                          LAMBDA e : \A n \in 1..(e[1] - 1) : l[n] # e[2])
    IN  IF l = <<>>
        THEN parsed.file_path
        ELSE parsed.file_path \o <<":">>
             \o join([k \in 1..Len(kept) |-> to_string(kept[k][2])], <<":">>)

build_rspec_arg(parsed) ==
    IF parsed.line_numbers = <<>>
    THEN parsed.file_path
    ELSE parsed.file_path \o <<":">>
         \o join([k \in 1..Len(parsed.line_numbers) |->
                      to_string(parsed.line_numbers[k])], <<":">>)

(* mutant: a pair of format flags is added before the positional argument *)
command_arguments_with_format(command, parsed) ==
    Tail(command_parts(command)) \o <<<<"-", "-", "f", "o", "r", "m", "a", "t">>, <<"p", "r", "o", "g", "r", "e", "s", "s">>>>
    \o <<build_rspec_arg(parsed)>>

command_arguments(command, parsed) ==
    Tail(command_parts(command)) \o <<build_rspec_arg(parsed)>>

(* mutant: stdout and stderr are put under each other's label *)
format_result_text_swapped(target, status, stdout, stderr) ==
    <<"T", "e", "s", "t", " ", "R", "e", "s", "u", "l", "t", "s", " ", "f", "o", "r", ":", " ">> \o target
    \o <<"\n", "E", "x", "i", "t", " ", "C", "o", "d", "e", ":", " ">> \o to_string(status)
    \o <<"\n", "\n", "O", "u", "t", "p", "u", "t", ":", "\n">> \o stderr
    \o <<"\n", "\n", "E", "r", "r", "o", "r", "s", ":", "\n">> \o stdout

format_result_text(target, status, stdout, stderr) ==
    <<"T", "e", "s", "t", " ", "R", "e", "s", "u", "l", "t", "s", " ", "f", "o", "r", ":", " ">> \o target
    \o <<"\n", "E", "x", "i", "t", " ", "C", "o", "d", "e", ":", " ">> \o to_string(status)
    \o <<"\n", "\n", "O", "u", "t", "p", "u", "t", ":", "\n">> \o stdout
    \o <<"\n", "\n", "E", "r", "r", "o", "r", "s", ":", "\n">> \o stderr

invalid_params_message(e) == <<"I", "n", "v", "a", "l", "i", "d", " ", "p", "a", "r", "a",
                               "m", "e", "t", "e", "r", "s", ":", " ">> \o e

internal_error_message(e) == <<"C", "o", "m", "m", "a", "n", "d", " ", "f", "a", "i", "l",
                               "e", "d", ":", " ">> \o e

(* mutant: the command is spawned before the arguments are validated *)
Reject_after_spawn(i, e) ==
    /\ result' = [result EXCEPT
                     ![i] = McpError("invalid_params", invalid_params_message(e))]
    /\ pc' = [pc EXCEPT ![i] = "returned"]
    /\ child' = [child EXCEPT ![i] =
                    [NoChild EXCEPT !.state = "running",
                                    !.program = command_parts(rspec_command)[1],
                                    !.arguments = Tail(command_parts(rspec_command))
                                                  \o <<args[i].file>>]]
    /\ UNCHANGED <<parsed_file, rspec_arg>>

(* line 108..116: validation refused the arguments; the handler returns *)
Reject(i, e) ==
    /\ result' = [result EXCEPT
                     ![i] = McpError("invalid_params", invalid_params_message(e))]
    /\ pc' = [pc EXCEPT ![i] = "returned"]
    /\ UNCHANGED <<parsed_file, rspec_arg, child>>

(* line 143, 156..159: cmd.output() could not start the program; the Err   *)
(* arm is taken at the first poll, before any suspension                   *)
SpawnFails(i, parsed, e) ==
    /\ parsed_file' = [parsed_file EXCEPT ![i] = Some(parsed)]
    /\ rspec_arg' = [rspec_arg EXCEPT ![i] = build_rspec_arg(parsed)]
    /\ child' = [child EXCEPT ![i] =
                    [NoChild EXCEPT !.state = "not_spawned",
                                    !.program = command_parts(rspec_command)[1],
                                    !.arguments =
                                        command_arguments(rspec_command, parsed)]]
    /\ result' = [result EXCEPT
                     ![i] = McpError("internal_error", internal_error_message(e))]
    /\ pc' = [pc EXCEPT ![i] = "returned"]

(* line 143: cmd.output() started the program; the task awaits its end *)
Spawns(i, parsed, hangs) ==
    /\ parsed_file' = [parsed_file EXCEPT ![i] = Some(parsed)]
    /\ rspec_arg' = [rspec_arg EXCEPT ![i] = build_rspec_arg(parsed)]
    /\ child' = [child EXCEPT ![i] =
                    [NoChild EXCEPT !.state = "running",
                                    !.program = command_parts(rspec_command)[1],
                                    !.arguments =
                                        command_arguments(rspec_command, parsed),
                                    !.hangs = hangs]]
    /\ pc' = [pc EXCEPT ![i] = "awaiting"]
    /\ UNCHANGED result

(* mutant: a lock held across the await lets one child run at a time *)
run_rspec_serialized(i, io_errors) ==
    /\ pc[i] = "called"
    /\ \A j \in DOMAIN pc : j # i => pc[j] # "awaiting"
    /\ LET line_numbers == unwrap_or_default(args[i].line_numbers)
           parsed == from_args(args[i].file, line_numbers)
       IN  IF ~parsed.ok
           THEN Reject(i, parsed.err)
           ELSE \/ \E e \in io_errors : SpawnFails(i, parsed.val, e)
                \/ \E hangs \in BOOLEAN : Spawns(i, parsed.val, hangs)
    /\ UNCHANGED <<rspec_command, args>>

(* run_rspec from its call to its first suspension (or to its return) *)
run_rspec(i, io_errors) ==
    /\ pc[i] = "called"
    /\ LET line_numbers == unwrap_or_default(args[i].line_numbers)
           parsed == from_args(args[i].file, line_numbers)
       IN  IF ~parsed.ok
           THEN Reject(i, parsed.err)
           ELSE \/ \E e \in io_errors : SpawnFails(i, parsed.val, e)
                \/ \E hangs \in BOOLEAN : Spawns(i, parsed.val, hangs)
    /\ UNCHANGED <<rspec_command, args>>

(* the operating system: a running child that does not hang ends, by exit *)
(* or by a signal, having written its output                              *)
ChildTerminates(i, outcomes) ==
    /\ child[i].state = "running"
    /\ ~child[i].hangs
    /\ \E o \in outcomes :
          child' = [child EXCEPT ![i] =
                       [@ EXCEPT !.state = "terminated", !.status = Some(o.status),
                                 !.stdout = o.stdout, !.stderr = o.stderr]]
    /\ UNCHANGED <<rspec_command, args, pc, parsed_file, rspec_arg, result>>

(* the operating system: the program was started and has ended, but the   *)
(* wait for it fails with an io::Error (its status is lost when SIGCHLD   *)
(* is ignored: "No child processes"); cmd.output() then completes with    *)
(* Err                                                                     *)
WaitFails(i, wait_errors) ==
    /\ child[i].state = "running"
    /\ ~child[i].hangs
    /\ \E e \in wait_errors :
          child' = [child EXCEPT ![i] = [@ EXCEPT !.state = "wait_failed", !.error = e]]
    /\ UNCHANGED <<rspec_command, args, pc, parsed_file, rspec_arg, result>>

(* mutant: a child that did not exit with 0 makes the call fail *)
output_ready_checks_status(i) ==
    /\ pc[i] = "awaiting"
    /\ child[i].state \in {"terminated", "wait_failed"}
    /\ IF child[i].state = "terminated"
       THEN LET stdout == from_utf8_lossy(child[i].stdout)
                stderr == from_utf8_lossy(child[i].stderr)
                status == unwrap_or(child[i].status[1].code, SIGNAL_SENTINEL)
                result_text ==
                    format_result_text(rspec_arg[i], status, stdout, stderr)
            IN  result' = [result EXCEPT ![i] =
                              IF status = 0 THEN CallToolResult_success(result_text)
                              ELSE McpError("internal_error",
                                            internal_error_message(stderr))]
       ELSE result' = [result EXCEPT ![i] =
                          McpError("internal_error",
                                   internal_error_message(child[i].error))]
    /\ pc' = [pc EXCEPT ![i] = "returned"]
    /\ UNCHANGED <<rspec_command, args, parsed_file, rspec_arg, child>>

(* line 143..159: run_rspec resumed with the result of cmd.output(): Ok    *)
(* with the status and output of its child, or Err with the io::Error      *)
output_ready(i) ==
    /\ pc[i] = "awaiting"
    /\ child[i].state \in {"terminated", "wait_failed"}
    /\ IF child[i].state = "terminated"
       THEN LET stdout == from_utf8_lossy(child[i].stdout)
                stderr == from_utf8_lossy(child[i].stderr)
                status == unwrap_or(child[i].status[1].code, SIGNAL_SENTINEL)
                result_text ==
                    format_result_text(rspec_arg[i], status, stdout, stderr)
            IN  result' = [result EXCEPT ![i] = CallToolResult_success(result_text)]
       ELSE result' = [result EXCEPT ![i] =
                          McpError("internal_error",
                                   internal_error_message(child[i].error))]
    /\ pc' = [pc EXCEPT ![i] = "returned"]
    /\ UNCHANGED <<rspec_command, args, parsed_file, rspec_arg, child>>

----------------------------------------------------------------------------
(* The inputs: bounded sets of requests, base commands and child outcomes *)

NInv == 2

MaxFrags == 2

MaxLines == 2

Invocations == 1..NInv

SeqsUpTo(S, n) == UNION {[1..k -> S] : k \in 0..n}

RECURSIVE concat(_)
concat(parts) == IF parts = <<>> THEN <<>> ELSE Head(parts) \o concat(Tail(parts))

PathPrefixes == {<<>>, <<".", "/">>}

PathFragments == {<<"a">>, <<"/">>, <<".", ".", "/">>, <<".", "/">>, <<LF>>, <<NUL>>, <<"\t">>}

PathSuffixes == {<<>>, <<"_", "s", "p", "e", "c", ".", "r", "b">>, <<"_", "s", "p", "e", "c", ".", "p", "y">>}

FilePaths ==
    {p \o concat(body) \o s :
        p \in PathPrefixes, body \in SeqsUpTo(PathFragments, MaxFrags),
        s \in PathSuffixes}

LineValues == {-5, 0, 37, 87}

LineNumberArgs == {None} \cup {Some(l) : l \in SeqsUpTo(LineValues, MaxLines)}

SomeFilePaths ==
    {<<"s", "p", "e", "c", "/", "m", "o", "d", "e", "l", "s", "/", "u", "s", "e", "r", "_",
       "s", "p", "e", "c", ".", "r", "b">>, <<".", "/", "s", "p", "e", "c", "/", "x", "_", "s", "p",
                                     "e", "c", ".", "r", "b">>, <<"_", "s", "p", "e", "c", ".", "r",
                                                           "b">>, <<>>}

SomeLineNumberArgs ==
    {None, Some(<<>>), Some(<<37, 87>>), Some(<<87, 37, 87>>), Some(<<0>>),
     Some(<<37, -5, 0>>)}

Requests ==
    {[file |-> f, line_numbers |-> l] : f \in FilePaths, l \in SomeLineNumberArgs}
    \cup {[file |-> f, line_numbers |-> l] : f \in SomeFilePaths, l \in LineNumberArgs}

DefaultCommand == <<"b", "u", "n", "d", "l", "e", " ", "e", "x", "e", "c", " ", "r", "s",
                    "p", "e", "c">>

BaseCommands ==
    {DefaultCommand, <<"r", "s", "p", "e", "c">>, <<" ", "b", "i", "n", "/", "r", "s", "p", "e", "c", "\t",
                                  "-", "-", "n", "o", "-", "c", "o", "l", "o", "r", " ", " ",
                                  "-", "b", " ">>,
     <<"r", "s", "p", "e", "c">> \o <<"\f">> \o <<"-", "-", "n", "o", "-", "c", "o", "l", "o", "r">> \o <<"\\u00A0", "\\u3000">> \o <<"-", "b">>}

SomeRequests ==
    {[file |-> <<"s", "p", "e", "c", "/", "m", "o", "d", "e", "l", "s", "/", "u", "s", "e",
                 "r", "_", "s", "p", "e", "c", ".", "r", "b">>, line_numbers |-> Some(<<37, 87>>)],
     [file |-> <<".", "/", "s", "p", "e", "c", "/", "x", "_", "s", "p", "e", "c", ".", "r",
                 "b">>, line_numbers |-> None],
     [file |-> <<"s", "p", "e", "c", "/", "u", "s", "e", "r", ".", "r", "b">>, line_numbers |-> Some(<<0>>)]}

Statuses == {Exited(0), Exited(1), Exited(127), Signaled(9)}

Outputs ==
    {[stdout |-> <<>>, stderr |-> <<>>],
     [stdout |-> <<"3", " ", "e", "x", "a", "m", "p", "l", "e", "s", ",", " ", "0", " ", "f",
                   "a", "i", "l", "u", "r", "e", "s">>, stderr |-> <<>>],
     [stdout |-> <<>>, stderr |-> <<"b", "o", "o", "m">>],
     [stdout |-> <<"F", INVALID_BYTE>> \o <<"\n", "\n", "E", "r", "r", "o", "r", "s", ":",
                                            "\n">>,
      stderr |-> <<"\n", "E", "x", "i", "t", " ", "C", "o", "d", "e", ":", " ", "0">>]}

Outcomes ==
    {[status |-> s, stdout |-> o.stdout, stderr |-> o.stderr] :
        s \in Statuses, o \in Outputs}

IoErrors ==
    {<<"N", "o", " ", "s", "u", "c", "h", " ", "f", "i", "l", "e", " ", "o", "r", " ", "d",
       "i", "r", "e", "c", "t", "o", "r", "y", " ", "(", "o", "s", " ", "e", "r", "r", "o",
       "r", " ", "2", ")">>, <<"P", "e", "r", "m", "i", "s", "s", "i",
                                                   "o", "n", " ", "d", "e", "n", "i", "e",
                                                   "d", " ", "(", "o", "s", " ", "e", "r",
                                                   "r", "o", "r", " ", "1", "3", ")">>}

WaitErrors == {<<"N", "o", " ", "c", "h", "i", "l", "d", " ", "p", "r", "o", "c", "e", "s",
                 "s", "e", "s", " ", "(", "o", "s", " ", "e", "r", "r", "o", "r", " ", "1",
                 "0", ")">>}

SomeOutcomes ==
    {[status |-> Exited(1), stdout |-> <<"o", "k">>, stderr |-> <<"b", "o", "o", "m">>],
     [status |-> Signaled(9), stdout |-> <<"F", INVALID_BYTE>>, stderr |-> <<>>]}

ConcRequests ==
    {[file |-> <<".", "/", "s", "p", "e", "c", "/", "x", "_", "s", "p", "e", "c", ".", "r",
                 "b">>, line_numbers |-> Some(<<37, 87>>)],
     [file |-> <<"s", "p", "e", "c", "/", "x", ".", "r", "b">>, line_numbers |-> None]}

SomeIoErrors == {<<"N", "o", " ", "s", "u", "c", "h", " ", "f", "i", "l", "e", " ", "o", "r",
                   " ", "d", "i", "r", "e", "c", "t", "o", "r", "y", " ", "(", "o", "s", " ",
                   "e", "r", "r", "o", "r", " ", "2", ")">>}

----------------------------------------------------------------------------
(* Spec: one invocation in flight, over the wide sets of requests and of   *)
(* outcomes.  ConcSpec: every invocation in flight at once, over a few     *)
(* requests and outcomes; LiveSpec adds the scheduling of the async        *)
(* runtime and of the operating system.                                    *)

NoRequest == [file |-> <<>>, line_numbers |-> None]

Scenarios ==
    {<<DefaultCommand, r>> : r \in Requests}
    \cup {<<c, r>> : c \in BaseCommands, r \in SomeRequests}

Started(cmd, reqs) ==
    /\ rspec_command = cmd
    /\ args = reqs
    /\ parsed_file = [i \in Invocations |-> None]
    /\ rspec_arg = [i \in Invocations |-> <<>>]
    /\ child = [i \in Invocations |-> NoChild]
    /\ result = [i \in Invocations |-> NoResult]

Init ==
    /\ \E s \in Scenarios :
          Started(s[1], [i \in Invocations |-> IF i = 1 THEN s[2] ELSE NoRequest])
    /\ pc = [i \in Invocations |-> IF i = 1 THEN "called" ELSE "idle"]

Next ==
    \E i \in Invocations :
        \/ run_rspec(i, IoErrors)
        \/ ChildTerminates(i, Outcomes)
        \/ WaitFails(i, WaitErrors)
        \/ output_ready(i)

Spec == Init /\ [][Next]_vars

ConcInit ==
    /\ \E reqs \in [Invocations -> ConcRequests] : Started(DefaultCommand, reqs)
    /\ pc = [i \in Invocations |-> "called"]

(* a step of invocation i or of its child; at most one of the three is     *)
(* enabled at a time, and it stays enabled until it is taken               *)
ConcStep(i) ==
    \/ run_rspec(i, SomeIoErrors)
    \/ ChildTerminates(i, SomeOutcomes)
    \/ WaitFails(i, WaitErrors)
    \/ output_ready(i)

ConcNext == \E i \in Invocations : ConcStep(i)

ConcSpec == ConcInit /\ [][ConcNext]_vars

(* the runtime polls every task that can run, and a child that does not    *)
(* hang ends: each invocation's next step is taken in the end              *)
LiveSpec == ConcSpec /\ \A i \in Invocations : WF_vars(ConcStep(i))

----------------------------------------------------------------------------
(* The rules of validation, stated on the characters of the request *)

Min(S) == CHOOSE x \in S : \A y \in S : x <= y

LineNumbersOf(i) == IF args[i].line_numbers = <<>> THEN <<>> ELSE args[i].line_numbers[1]

HasTraversal(f) ==
    \E k \in 1..(Len(f) - 2) : f[k] = "." /\ f[k + 1] = "." /\ f[k + 2] = "/"

HasNulOrNewline(f) == \E k \in 1..Len(f) : f[k] \in {NUL, "\n"}

HasControlCharacter(f) == \E k \in 1..Len(f) : f[k] \in {NUL, "\n", "\t", "\r"}

WithoutDotSlash(f) ==
    IF Len(f) >= 2 /\ f[1] = "." /\ f[2] = "/" THEN [k \in 1..(Len(f) - 2) |-> f[k + 2]] ELSE f

SuffixLen == 8

HasSpecSuffix(f) ==
    LET g == WithoutDotSlash(f)
    IN  /\ Len(g) >= SuffixLen
        /\ [k \in 1..SuffixLen |-> g[Len(g) - SuffixLen + k]] = <<"_", "s", "p", "e", "c", ".", "r",
                                                                  "b">>

HasStem(f) == Len(WithoutDotSlash(f)) > SuffixLen

NonPositiveAt(l) == {k \in 1..Len(l) : l[k] <= 0}

ViolatedRules(f, l) ==
    {n \in 1..5 :
        \/ n = 1 /\ Len(f) = 0
        \/ n = 2 /\ HasNulOrNewline(f)
        \/ n = 3 /\ HasTraversal(f)
        \/ n = 4 /\ ~(HasSpecSuffix(f) /\ HasStem(f))
        \/ n = 5 /\ NonPositiveAt(l) # {}}

PathRulesHold(f) == ViolatedRules(f, <<>>) = {}

LineNumberMessage == <<"L", "i", "n", "e", " ", "n", "u", "m", "b", "e", "r", "s", " ", "m",
                       "u", "s", "t", " ", "b", "e", " ", "p", "o", "s", "i", "t", "i", "v",
                       "e", " ", "i", "n", "t", "e", "g", "e", "r", "s", ",", " ", "g", "o",
                       "t", ":", " ">>

IsErrorOfRule(n, f, e) ==
    CASE n = 1 -> e = <<"E", "m", "p", "t", "y", " ", "f", "i", "l", "e", " ", "p", "a", "t",
                        "h">>
      [] n = 2 -> e = <<"I", "n", "v", "a", "l", "i", "d", " ", "c", "h", "a", "r", "a", "c",
                        "t", "e", "r", "s", " ", "i", "n", " ", "f", "i", "l", "e", " ", "p",
                        "a", "t", "h">>
      [] n = 3 -> e = <<"P", "a", "t", "h", " ", "t", "r", "a", "v", "e", "r", "s", "a", "l",
                        " ", "n", "o", "t", " ", "a", "l", "l", "o", "w", "e", "d">>
      [] n = 4 -> e = (IF HasSpecSuffix(f) THEN <<"I", "n", "v", "a", "l", "i", "d", " ",
                                                  "f", "i", "l", "e", " ", "p", "a", "t",
                                                  "h", " ", "f", "o", "r", "m", "a", "t">>
                       ELSE <<"F", "i", "l", "e", " ", "m", "u", "s", "t", " ", "b", "e",
                              " ", "a", "n", " ", "R", "S", "p", "e", "c", " ", "t", "e",
                              "s", "t", " ", "f", "i", "l", "e", " ", "(", "*", "_", "s",
                              "p", "e", "c", ".", "r", "b", ")">>)
      [] n = 5 -> Len(e) > Len(LineNumberMessage)
                  /\ [k \in 1..Len(LineNumberMessage) |-> e[k]] = LineNumberMessage

Rejected(i) == pc[i] = "returned" /\ result[i].kind = "invalid_params"

Accepted(i) == parsed_file[i] # None

DigitValue(c) == CHOOSE d \in 0..9 : to_string(d) = <<c>>

RECURSIVE ParseNatural(_)
ParseNatural(s) ==
    IF Len(s) = 1 THEN DigitValue(s[1])
    ELSE 10 * ParseNatural(SubSeq(s, 1, Len(s) - 1)) + DigitValue(s[Len(s)])

ParseInteger(s) == IF s[1] = "-" THEN 0 - ParseNatural(Tail(s)) ELSE ParseNatural(s)

Suffix(s, from) == SubSeq(s, from, Len(s))

----------------------------------------------------------------------------
(* C1: validation applies its five rules in order and reports the error of *)
(* the lowest-numbered rule the request violates; a request that violates  *)
(* no rule is accepted.                                                    *)
C1_FirstFailureWins ==
    \A i \in Invocations :
        pc[i] # "idle" =>
            LET f == args[i].file
                l == LineNumbersOf(i)
                r == from_args(f, l)
                broken == ViolatedRules(f, l)
            IN  /\ r.ok <=> broken = {}
                /\ ~r.ok => IsErrorOfRule(Min(broken), f, r.err)
                /\ pc[i] # "called" => (Rejected(i) <=> broken # {})
                /\ Rejected(i) =>
                      /\ Len(result[i].text) > Len(<<"I", "n", "v", "a", "l", "i", "d", " ",
                                                     "p", "a", "r", "a", "m", "e", "t", "e",
                                                     "r", "s", ":", " ">>)
                      /\ IsErrorOfRule(Min(broken), f,
                             Suffix(result[i].text, Len(<<"I", "n", "v", "a", "l", "i", "d",
                                                          " ", "p", "a", "r", "a", "m", "e",
                                                          "t", "e", "r", "s", ":", " ">>) + 1))

(* a rejected request that breaks rules 2, 3, 4 and 5 at once *)
C1_Witness ==
    \E i \in Invocations :
        /\ Rejected(i)
        /\ ViolatedRules(args[i].file, LineNumbersOf(i)) = {2, 3, 4, 5}

----------------------------------------------------------------------------
(* C2 as amended: an accepted target has a non-empty identifier without    *)
(* `../` and without NUL or newline, ending in `_spec.rb` with a stem      *)
(* before it once one leading `./` is stripped, and only positive          *)
(* selectors; identifier and selectors are those of the request, unchanged *)
(* and in order.                                                           *)
C2_ValidatedTarget ==
    \A i \in Invocations :
        Accepted(i) =>
            LET t == parsed_file[i][1]
            IN  /\ t.file_path = args[i].file
                /\ t.line_numbers = LineNumbersOf(i)
                /\ Len(t.file_path) > 0
                /\ ~HasTraversal(t.file_path)
                /\ ~HasNulOrNewline(t.file_path)
                /\ HasSpecSuffix(t.file_path) /\ HasStem(t.file_path)
                /\ \A k \in 1..Len(t.line_numbers) : t.line_numbers[k] > 0

(* C2 as claimed: an accepted identifier holds no control character at all *)
C2_NoControlCharacters ==
    \A i \in Invocations :
        Accepted(i) => ~HasControlCharacter(parsed_file[i][1].file_path)

(* an accepted target with the `./` prefix and selectors out of order *)
C2_Witness ==
    \E i \in Invocations :
        /\ Accepted(i)
        /\ starts_with(parsed_file[i][1].file_path, <<".", "/">>)
        /\ parsed_file[i][1].line_numbers = <<87, 37, 87>>

----------------------------------------------------------------------------
(* C3: a request that fails validation never has a child process, and its  *)
(* invocation ends with an invalid-params error that carries the message   *)
(* of validation; a child exists only for a request validation accepted.   *)
C3_NoSpawnOnInvalid ==
    \A i \in Invocations :
        LET f == args[i].file
            l == LineNumbersOf(i)
        IN  /\ (pc[i] # "idle" /\ ViolatedRules(f, l) # {}) =>
                  /\ child[i] = NoChild
                  /\ pc[i] \in {"called", "returned"}
                  /\ pc[i] = "returned" =>
                        /\ result[i].kind = "invalid_params"
                        /\ ends_with(result[i].text, from_args(f, l).err)
            /\ child[i].state # "none" => Accepted(i) /\ ViolatedRules(f, l) = {}

(* a returned invocation, rejected for a line number, that spawned nothing *)
C3_Witness ==
    \E i \in Invocations :
        /\ Rejected(i)
        /\ child[i] = NoChild
        /\ ViolatedRules(args[i].file, LineNumbersOf(i)) = {5}

----------------------------------------------------------------------------
(* Reading a report back: its lines, its sections and the numbers in them *)

IsDecimal(s) ==
    LET body == IF Len(s) > 0 /\ s[1] = "-" THEN Tail(s) ELSE s
    IN  /\ Len(body) > 0
        /\ \A k \in 1..Len(body) :
              body[k] \in {"0", "1", "2", "3", "4", "5", "6", "7", "8", "9"}

RECURSIVE SplitOn(_, _, _)
SplitOn(s, sep, piece) ==
    IF s = <<>> THEN <<piece>>
    ELSE IF Head(s) = sep THEN <<piece>> \o SplitOn(Tail(s), sep, <<>>)
    ELSE SplitOn(Tail(s), sep, Append(piece, Head(s)))

Section(t, offset, s) ==
    /\ offset + Len(s) <= Len(t)
    /\ \A k \in 1..Len(s) : t[offset + k] = s[k]

DecodedSection(t, offset, bytes) ==
    /\ offset + Len(bytes) <= Len(t)
    /\ \A k \in 1..Len(bytes) :
          t[offset + k] = (IF bytes[k] = INVALID_BYTE THEN REPLACEMENT_CHARACTER ELSE bytes[k])

TargetLabel == <<"T", "e", "s", "t", " ", "R", "e", "s", "u", "l", "t", "s", " ", "f", "o",
                 "r", ":", " ">>

ExitCodeLabel == <<"\n", "E", "x", "i", "t", " ", "C", "o", "d", "e", ":", " ">>

OutputLabel == <<"\n", "\n", "O", "u", "t", "p", "u", "t", ":", "\n">>

ErrorsLabel == <<"\n", "\n", "E", "r", "r", "o", "r", "s", ":", "\n">>

(* t is: TargetLabel, target, ExitCodeLabel, the decimal of code,          *)
(* OutputLabel, the text of out, ErrorsLabel, the text of err; no more     *)
IsReport(t, target, code, out, err) ==
    LET fixed == Len(TargetLabel) + Len(target) + Len(ExitCodeLabel) + Len(OutputLabel)
                 + Len(out) + Len(ErrorsLabel) + Len(err)
        width == Len(t) - fixed
        at2 == Len(TargetLabel)
        at3 == at2 + Len(target)
        at4 == at3 + Len(ExitCodeLabel)
        at5 == at4 + width
        at6 == at5 + Len(OutputLabel)
        at7 == at6 + Len(out)
        at8 == at7 + Len(ErrorsLabel)
    IN  /\ width >= 1
        /\ Section(t, 0, TargetLabel)
        /\ Section(t, at2, target)
        /\ Section(t, at3, ExitCodeLabel)
        /\ IsDecimal(SubSeq(t, at4 + 1, at5))
        /\ ParseInteger(SubSeq(t, at4 + 1, at5)) = code
        /\ Section(t, at5, OutputLabel)
        /\ DecodedSection(t, at6, out)
        /\ Section(t, at7, ErrorsLabel)
        /\ DecodedSection(t, at8, err)
        /\ at8 + Len(err) = Len(t)

(* the number on the second line of a report, after "Exit Code: " *)
ReportedExitCode(t) ==
    LET breaks == {k \in 1..Len(t) : t[k] = "\n"}
        first == Min(breaks)
        second == Min(breaks \ {first})
        line == SubSeq(t, first + 1, second - 1)
    IN  ParseInteger(Suffix(line, Len(ExitCodeLabel)))

ExitCodeOf(c) == IF c.status[1].signal = None THEN c.status[1].code[1] ELSE -1

Spawned(i) == child[i].state \in {"running", "terminated", "wait_failed"}

----------------------------------------------------------------------------
(* C4 as amended: once the child was spawned and has ended and its status  *)
(* and output were collected, the invocation returns a successful report,  *)
(* whatever the exit code; the report shows the exit code of the child, or *)
(* -1 when a signal ended it; an internal error "Command failed: ..." is   *)
(* returned exactly when cmd.output() failed, because the command could    *)
(* not be spawned or because the wait for the spawned child failed.        *)
C4_ReportAfterTermination ==
    \A i \in Invocations :
        pc[i] = "returned" =>
            /\ child[i].state = "terminated" =>
                  /\ result[i].kind = "success"
                  /\ ReportedExitCode(result[i].text) = ExitCodeOf(child[i])
            /\ result[i].kind = "internal_error" <=>
                  child[i].state \in {"not_spawned", "wait_failed"}
            /\ result[i].kind = "internal_error" =>
                  starts_with(result[i].text, <<"C", "o", "m", "m", "a", "n", "d", " ", "f",
                                                "a", "i", "l", "e", "d", ":", " ">>)
            /\ result[i].kind = "success" <=> child[i].state = "terminated"

(* C4 as claimed: whenever the child was spawned and has ended the         *)
(* invocation returns a successful report, and an internal error is        *)
(* returned exactly when the command could not be spawned at all           *)
C4_ErrorOnlyWhenNotSpawned ==
    \A i \in Invocations :
        pc[i] = "returned" =>
            /\ child[i].state \in {"terminated", "wait_failed"} =>
                  result[i].kind = "success"
            /\ result[i].kind = "internal_error" <=> child[i].state = "not_spawned"

(* a returned report of a child that a signal ended *)
C4_Witness ==
    \E i \in Invocations :
        /\ pc[i] = "returned"
        /\ child[i].state = "terminated"
        /\ child[i].status[1].signal # None
        /\ result[i].kind = "success"

----------------------------------------------------------------------------
(* C5 as amended: an identifier that contains `../` and neither NUL nor    *)
(* newline fails validation with "Path traversal not allowed", whatever    *)
(* its suffix.                                                             *)
C5_PathTraversal ==
    \A i \in Invocations :
        (pc[i] # "idle" /\ HasTraversal(args[i].file) /\ ~HasNulOrNewline(args[i].file)) =>
            LET r == from_args(args[i].file, LineNumbersOf(i))
            IN  /\ ~r.ok
                /\ r.err = <<"P", "a", "t", "h", " ", "t", "r", "a", "v", "e", "r", "s", "a",
                             "l", " ", "n", "o", "t", " ", "a", "l", "l", "o", "w", "e", "d">>
                /\ pc[i] # "called" =>
                      /\ Rejected(i)
                      /\ result[i].text = <<"I", "n", "v", "a", "l", "i", "d", " ", "p", "a",
                                            "r", "a", "m", "e", "t", "e", "r", "s", ":", " ",
                                            "P", "a", "t", "h", " ", "t", "r", "a", "v", "e",
                                            "r", "s", "a", "l", " ", "n", "o", "t", " ", "a",
                                            "l", "l", "o", "w", "e", "d">>

(* C5 as claimed: every identifier that contains `../` fails with          *)
(* "Path traversal not allowed"                                            *)
C5_EveryTraversal ==
    \A i \in Invocations :
        (pc[i] = "returned" /\ HasTraversal(args[i].file)) =>
            /\ Rejected(i)
            /\ result[i].text = <<"I", "n", "v", "a", "l", "i", "d", " ", "p", "a", "r", "a",
                                  "m", "e", "t", "e", "r", "s", ":", " ", "P", "a", "t", "h",
                                  " ", "t", "r", "a", "v", "e", "r", "s", "a", "l", " ", "n",
                                  "o", "t", " ", "a", "l", "l", "o", "w", "e", "d">>

(* a rejected identifier with `../` in it and a correct suffix and stem *)
C5_Witness ==
    \E i \in Invocations :
        /\ Rejected(i)
        /\ HasTraversal(args[i].file)
        /\ HasSpecSuffix(args[i].file) /\ HasStem(args[i].file)
        /\ ~HasNulOrNewline(args[i].file)

----------------------------------------------------------------------------
(* C6 as amended: when the identifier passes rules 1 to 4, line numbers    *)
(* with a value <= 0 among them fail validation with the line-number       *)
(* error, which names the earliest such value in the given order.          *)
C6_FirstOffendingValue ==
    \A i \in Invocations :
        LET f == args[i].file
            l == LineNumbersOf(i)
            r == from_args(f, l)
            named == Suffix(r.err, Len(LineNumberMessage) + 1)
        IN  (pc[i] # "idle" /\ PathRulesHold(f) /\ NonPositiveAt(l) # {}) =>
                /\ ~r.ok
                /\ starts_with(r.err, LineNumberMessage)
                /\ IsDecimal(named)
                /\ ParseInteger(named) = l[Min(NonPositiveAt(l))]
                /\ pc[i] # "called" =>
                      Rejected(i) /\ result[i].text = <<"I", "n", "v", "a", "l", "i", "d",
                                                        " ", "p", "a", "r", "a", "m", "e",
                                                        "t", "e", "r", "s", ":", " ">> \o r.err

(* C6 as claimed: any line numbers with a value <= 0 among them fail with  *)
(* the line-number error                                                   *)
C6_EveryNonPositive ==
    \A i \in Invocations :
        (pc[i] = "returned" /\ NonPositiveAt(LineNumbersOf(i)) # {}) =>
            /\ Rejected(i)
            /\ starts_with(result[i].text, <<"I", "n", "v", "a", "l", "i", "d", " ", "p",
                                             "a", "r", "a", "m", "e", "t", "e", "r", "s",
                                             ":", " ">> \o LineNumberMessage)

(* a rejected request with a valid identifier and two different offending  *)
(* values, the first of them not the first selector                        *)
C6_Witness ==
    \E i \in Invocations :
        /\ Rejected(i)
        /\ PathRulesHold(args[i].file)
        /\ LineNumbersOf(i) = <<37, -5, 0>>

----------------------------------------------------------------------------
(* the program and the arguments of a child, against the base command *)
ArgumentsAsComposed ==
    \A i \in Invocations :
        child[i].state # "none" =>
            LET parts == command_parts(rspec_command)
                base == Len(parts) - 1
                words == <<child[i].program>> \o SubSeq(child[i].arguments, 1, base)
            IN  /\ Len(child[i].arguments) = base + 1
                /\ child[i].program = parts[1]
                /\ \A k \in 1..base : child[i].arguments[k] = parts[k + 1]
                /\ child[i].arguments[base + 1] = rspec_arg[i]
                /\ \A k \in 1..Len(words) :
                      /\ words[k] # <<>>
                      /\ \A n \in 1..Len(words[k]) : ~is_whitespace(words[k][n])
                /\ concat(words) = SelectSeq(rspec_command, LAMBDA c : ~is_whitespace(c))

(* C7 as amended: the program is the first word of the base command and    *)
(* the arguments of the child are the remaining words in order, then       *)
(* exactly one positional argument, and nothing between them; no step      *)
(* changes the base command.                                               *)
C7_ArgumentVector ==
    /\ []ArgumentsAsComposed
    /\ [][rspec_command' = rspec_command]_vars

(* C7 as claimed: a pair of result-format flags stands between the base    *)
(* arguments and the positional argument                                   *)
C7_WithFormatFlags ==
    \A i \in Invocations :
        child[i].state # "none" =>
            LET base == Len(command_parts(rspec_command)) - 1
            IN  /\ Len(child[i].arguments) = base + 2 + 1
                /\ child[i].arguments[base + 3] = rspec_arg[i]

(* a child of a base command with two base arguments and stray whitespace *)
C7_Witness ==
    \E i \in Invocations :
        /\ Spawned(i)
        /\ Len(command_parts(rspec_command)) = 3
        /\ is_whitespace(rspec_command[1])
        /\ Len(child[i].arguments) = 3

----------------------------------------------------------------------------
(* C8: the positional argument is the identifier as supplied when there    *)
(* are no selectors, and otherwise the identifier, a colon, and every      *)
(* selector in decimal, in the given order, joined by colons.              *)
C8_PositionalArgument ==
    \A i \in Invocations :
        child[i].state # "none" =>
            LET f == args[i].file
                l == LineNumbersOf(i)
                positional == child[i].arguments[Len(child[i].arguments)]
                selectors == SplitOn(Suffix(positional, Len(f) + 2), ":", <<>>)
            IN  /\ starts_with(positional, f)
                /\ l = <<>> => positional = f
                /\ l # <<>> =>
                      /\ Len(positional) > Len(f) + 1
                      /\ positional[Len(f) + 1] = ":"
                      /\ Len(selectors) = Len(l)
                      /\ \A k \in 1..Len(l) :
                            IsDecimal(selectors[k]) /\ ParseInteger(selectors[k]) = l[k]

(* a child whose identifier starts with `./` and whose selectors repeat    *)
(* and are out of order                                                    *)
C8_Witness ==
    \E i \in Invocations :
        /\ Spawned(i)
        /\ starts_with(args[i].file, <<".", "/">>)
        /\ LineNumbersOf(i) = <<87, 37, 87>>
        /\ ends_with(child[i].arguments[Len(child[i].arguments)], <<"_", "s", "p", "e", "c", ".", "r",
                                                                    "b", ":", "8", "7", ":", "3", "7",
                                                                    ":", "8", "7">>)

----------------------------------------------------------------------------
(* C9: a report is the target description under "Test Results for:", the   *)
(* exit code under "Exit Code:", all of stdout under "Output:" and all of  *)
(* stderr under "Errors:", in this order and with nothing else, so its     *)
(* inputs determine it.                                                    *)
C9_ReportTemplate ==
    \A i \in Invocations :
        result[i].kind = "success" =>
            IsReport(result[i].text, rspec_arg[i], ExitCodeOf(child[i]),
                     child[i].stdout, child[i].stderr)

(* a report with exit code 127, an invalid byte and the text of a label in *)
(* stdout, and a stderr that is not empty                                  *)
C9_Witness ==
    \E i \in Invocations :
        /\ result[i].kind = "success"
        /\ child[i].status[1].code = Some(127)
        /\ contains_char(child[i].stdout, INVALID_BYTE)
        /\ contains(child[i].stdout, ErrorsLabel)
        /\ child[i].stderr # <<>>
        /\ LineNumbersOf(i) # <<>>

----------------------------------------------------------------------------
(* C10: invocations share nothing but the base command, which no step      *)
(* changes: a step changes the state of one invocation and its child only; *)
(* a report is made of the outcome of the invocation's own child; an       *)
(* invocation whose child never ends stays suspended; and every invocation *)
(* reaches its return, whatever the others do, unless its own child hangs. *)
OwnChild(i) ==
    /\ pc[i] = "awaiting" =>
          Spawned(i) /\ child[i].arguments[Len(child[i].arguments)] = rspec_arg[i]
    /\ pc[i] \in {"idle", "called"} => child[i] = NoChild /\ result[i] = NoResult
    /\ result[i].kind = "success" =>
          /\ child[i].state = "terminated"
          /\ IsReport(result[i].text, rspec_arg[i], ExitCodeOf(child[i]),
                      child[i].stdout, child[i].stderr)

UnchangedFor(j) ==
    /\ pc'[j] = pc[j] /\ parsed_file'[j] = parsed_file[j] /\ rspec_arg'[j] = rspec_arg[j]
    /\ child'[j] = child[j] /\ result'[j] = result[j] /\ args'[j] = args[j]

OneInvocationSteps ==
    /\ rspec_command' = rspec_command
    /\ \E i \in Invocations : \A j \in Invocations \ {i} : UnchangedFor(j)

HungStaysSuspended ==
    \A i \in Invocations :
        (pc[i] = "awaiting" /\ child[i].hangs) =>
            (pc'[i] = "awaiting" /\ result'[i] = NoResult)

Settled(i) == pc[i] = "returned" \/ (pc[i] = "awaiting" /\ child[i].hangs)

C10_IndependentInvocations ==
    /\ [](\A i \in Invocations : OwnChild(i))
    /\ [][OneInvocationSteps]_vars
    /\ [][HungStaysSuspended]_vars
    /\ \A i \in Invocations : (pc[i] = "called") ~> Settled(i)

(* one invocation suspended on a child that hangs while another has        *)
(* returned the report of its own child, which a signal ended              *)
C10_Witness ==
    \E i, j \in Invocations :
        /\ i # j
        /\ pc[i] = "awaiting" /\ child[i].state = "running" /\ child[i].hangs
        /\ pc[j] = "returned" /\ result[j].kind = "success"
        /\ child[j].status[1].signal # None

====
